---- MODULE Spec2Model ----
(***************************************************************************)
(* Model of the timeline controller of the Intern Simulator                *)
(* (src/groq-deploy/app.py): the Streamlit session state, the buttons that *)
(* record a pending action, the processing pass that consumes it, the      *)
(* initial generation and the reset, together with run_generation and the  *)
(* token stream of generate_events (src/generator.py).                     *)
(*                                                                         *)
(* Strings are sequences of characters/tokens, so that joining, stripping  *)
(* and accumulating are computed, not assumed.  An optional value is       *)
(* None or Some(v).                                                        *)
(***************************************************************************)
EXTENDS Integers, Sequences, FiniteSets, TLC

VARIABLES
    event_history,     \* st.session_state.event_history: list of texts
    week_counter,      \* st.session_state.week_counter
    last_mode,         \* st.session_state.last_mode
    last_discipline,   \* st.session_state.last_discipline
    last_weeks,        \* st.session_state.last_weeks
    pending_action,    \* st.session_state.pending_action
    pending_feedback,  \* st.session_state.pending_feedback
    pending_weeks,     \* st.session_state.pending_weeks
    entry_req,         \* per history entry: mode/discipline/weeks of the
                       \* run_generation call whose result was appended
    req,               \* arguments of the run_generation call of the latest
                       \* script run (NoRequest when it made none)
    last,              \* what the latest script run did, and its outcome
    commit_stream,     \* the stream whose accumulated text the latest script
                       \* run appended to event_history (None when the run
                       \* appended nothing)
    messages           \* the messages generate_events built in the latest
                       \* script run (NoMessages when the run made no call)

vars == <<event_history, week_counter, last_mode, last_discipline, last_weeks,
          pending_action, pending_feedback, pending_weeks, entry_req, req, last,
          commit_stream, messages>>

-----------------------------------------------------------------------------
(* Bounds of the model *)

\* longest history a continuation is started from, plus one
MaxHistory == 3
\* largest value entered in a "number of weeks" input (the program allows 52)
MaxWeeks == 2
\* largest distance between week_counter and the weeks of the history
MaxDrift == 1

-----------------------------------------------------------------------------
(* Values *)

None == [some |-> FALSE]
Some(v) == [some |-> TRUE, val |-> v]

NoneStr == "None"

DISCIPLINES == {"Business", "Systems Engineer", "Developer"}

\* the disciplines selected in the runs explored
DisciplineInputs == {d \in DISCIPLINES : d = "Developer"}

ModeLabels == {"Single Event", "Full Set -- One Discipline",
               "Full Set -- All Disciplines"}

\* Text typed into the feedback box: blank, or with content.
Feedbacks == {<<" ">>, <<"h", " ">>}

\* Text typed into the project description box.
Descriptions == {<<" ">>, <<"p">>}

\* The chunk["message"]["content"] values of the streams explored: a stream
\* with no chunk, one with an empty chunk only, and two with text.
ChunkSeqs == {<<>>, << <<>> >>, << <<"E">> >>, << <<"E">>, <<>>, <<"F">> >>}

\* The generation service: the chunks it delivers and whether it then raises
\* (raises = TRUE with no chunks is a service that cannot be reached). A
\* stream that raises does so before any chunk or after one chunk of text.
Streams ==
    {s \in [chunks : ChunkSeqs, raises : BOOLEAN] :
        s.raises => s.chunks \in {<<>>, << <<"E">> >>}}

-----------------------------------------------------------------------------
(* Pure helpers *)

Front(s) == SubSeq(s, 1, Len(s) - 1)

LastOf(s) == s[Len(s)]

IsSpace(c) == c = " "

RECURSIVE LStrip(_)
LStrip(s) == IF s # <<>> /\ IsSpace(Head(s)) THEN LStrip(Tail(s)) ELSE s

RECURSIVE RStrip(_)
RStrip(s) == IF s # <<>> /\ IsSpace(LastOf(s)) THEN RStrip(Front(s)) ELSE s

\* str.strip()
Strip(s) == RStrip(LStrip(s))

\* the separator "\n\n"
Separator == <<"\n\n">>

RECURSIVE Join(_, _)
\* sep.join(texts)
Join(sep, texts) ==
    IF texts = <<>> THEN <<>>
    ELSE IF Len(texts) = 1 THEN texts[1]
    ELSE texts[1] \o sep \o Join(sep, Tail(texts))

RECURSIVE Yielded(_)
\* generate_events: the tokens yielded for the chunks (empty ones are skipped)
Yielded(chunks) ==
    IF chunks = <<>> THEN <<>>
    ELSE IF Head(chunks) # <<>> THEN <<Head(chunks)>> \o Yielded(Tail(chunks))
    ELSE Yielded(Tail(chunks))

RECURSIVE Accumulate(_, _)
\* full_response += token, for every token
Accumulate(full_response, tokens) ==
    IF tokens = <<>> THEN full_response
    ELSE Accumulate(full_response \o Head(tokens), Tail(tokens))

\* bug variant: the text accumulated before an error is returned
run_generation_KeepsPartial(stream) ==
    LET full_response == Accumulate(<<>>, Yielded(stream.chunks))
    IN  IF full_response # <<>> THEN Some(full_response) ELSE None

\* run_generation: the full text, or None when the stream raised or was empty
run_generation(stream) ==
    LET full_response == Accumulate(<<>>, Yielded(stream.chunks))
    IN  IF stream.raises THEN None
        ELSE IF full_response # <<>> THEN Some(full_response) ELSE None

\* `if result:`
Truthy(result) == result.some /\ result.val # <<>>

Outcome(stream) ==
    IF stream.raises THEN "raise"
    ELSE IF Truthy(run_generation(stream)) THEN "ok" ELSE "empty"

Request(m, d, weeks, start_week, previous, fb) ==
    [mode |-> m, discipline |-> d, weeks |-> weeks, start_week |-> start_week,
     previous |-> previous, feedback |-> fb]

NoRequest == Request(NoneStr, NoneStr, 0, 0, None, None)

EntryReq(m, d, weeks) == [mode |-> m, discipline |-> d, weeks |-> weeks]

RECURSIVE SumWeeks(_)
\* the weeks of the entries of a history
SumWeeks(reqs) ==
    IF reqs = <<>> THEN 0 ELSE reqs[1].weeks + SumWeeks(Tail(reqs))

DriftInRange(counter, reqs) ==
    counter - SumWeeks(reqs) \in (0 - MaxDrift)..MaxDrift

\* a script run: what it did, how its generation ended, and the
\* pending_action it started with
Run(op, outcome, action) == [op |-> op, outcome |-> outcome, action |-> action]

-----------------------------------------------------------------------------
(* Prompt composer (src/generator.py).  A prompt is a sequence of tokens:   *)
(* each fixed passage of the source is one token, named after it, and the   *)
(* texts supplied by the caller are spliced in character by character.      *)

\* truthiness of a `str | None` argument
Present(text) == text.some /\ text.val # <<>>

\* truthiness of the discipline argument
DisciplineGiven(discipline) == discipline # NoneStr /\ discipline # ""

\* DISCIPLINE_GUIDANCE.get(discipline, "")
Guidance(discipline) ==
    IF discipline \in DISCIPLINES THEN <<"DISCIPLINE_GUIDANCE", discipline>>
    ELSE <<>>

\* bug variant: the exclusivity instruction is chosen before the mode is looked at
_build_system_prompt_DisciplineFirst(mode, discipline) ==
    <<"SYSTEM_BASE">>
    \o (IF DisciplineGiven(discipline) THEN <<"ONLY_DISCIPLINE", discipline>>
        ELSE IF mode = "all" THEN <<"CASCADE_PRINCIPLE">>
        ELSE <<>>)
    \o <<"SYSTEM_RULES">>

\* _build_system_prompt
_build_system_prompt(mode, discipline) ==
    <<"SYSTEM_BASE">>
    \o (IF mode = "all" THEN <<"CASCADE_PRINCIPLE">>
        ELSE IF DisciplineGiven(discipline) THEN <<"ONLY_DISCIPLINE", discipline>>
        ELSE <<>>)
    \o <<"SYSTEM_RULES">>

\* _add_previous_events_context
_add_previous_events_context(prompt, previous_events) ==
    IF Present(previous_events)
    THEN prompt \o <<"PREVIOUS_EVENTS">> \o previous_events.val
                \o <<"END_PREVIOUS_EVENTS">>
    ELSE prompt

\* bug variant: blank feedback is passed on as well
_add_feedback_context_NoStrip(prompt, feedback) ==
    IF Present(feedback)
    THEN prompt \o <<"FEEDBACK">> \o Strip(feedback.val) \o <<"END_FEEDBACK">>
    ELSE prompt

\* _add_feedback_context
_add_feedback_context(prompt, feedback) ==
    IF Present(feedback) /\ Strip(feedback.val) # <<>>
    THEN prompt \o <<"FEEDBACK">> \o Strip(feedback.val) \o <<"END_FEEDBACK">>
    ELSE prompt

\* _add_cross_reference_instruction
_add_cross_reference_instruction(prompt) == prompt \o <<"CROSS_REFERENCES">>

\* the codebase paragraph of _build_single_event_prompt
SingleCodebase(prompt, codebase_context) ==
    IF Present(codebase_context)
    THEN prompt \o <<"CODEBASE_FILES_SINGLE">> \o codebase_context.val
    ELSE prompt

\* the codebase paragraph of _build_set_prompt and _build_all_disciplines_prompt
SetCodebase(prompt, codebase_context) ==
    IF Present(codebase_context)
    THEN prompt \o <<"CODEBASE_FILES">> \o codebase_context.val
    ELSE prompt

\* "--- PROJECT README ---" ... "--- END README ---"
Readme(project_description) ==
    <<"PROJECT_README">> \o project_description \o <<"END_README">>

\* week_label of _build_single_event_prompt
WeekLabel(week_number) ==
    IF week_number # 0 THEN <<"Week", ToString(week_number)>> ELSE <<"a week">>

\* _build_single_event_prompt
_build_single_event_prompt(project_description, discipline, codebase_context, previous_events, feedback, week_number) ==
    LET head == <<"SINGLE_EVENT_FOR">> \o WeekLabel(week_number)
                \o <<discipline, "EXACTLY_ONE_EVENT">>
                \o Readme(project_description)
                \o <<"GUIDANCE_FOR", discipline>> \o Guidance(discipline)
                \o <<"EVENT_FORMAT">>
        p1 == _add_previous_events_context(head, previous_events)
        p2 == _add_feedback_context(p1, feedback)
        p3 == SingleCodebase(p2, codebase_context)
    IN  p3 \o <<"PROMPT_CLOSER", "ONLY_ONE_EVENT">>

\* _build_set_prompt
_build_set_prompt(project_description, discipline, num_weeks, codebase_context, previous_events, feedback, start_week) ==
    LET end_week == start_week + num_weeks - 1
        head == <<"SET_OF", ToString(num_weeks), "Week", ToString(start_week),
                  "Week", ToString(end_week), discipline>>
                \o Readme(project_description)
                \o <<"GUIDANCE_FOR", discipline>> \o Guidance(discipline)
                \o <<"CONTINUOUS_NARRATIVE", ToString(num_weeks), "EVENT_FORMAT">>
        p1 == _add_previous_events_context(head, previous_events)
        p2 == _add_feedback_context(p1, feedback)
        p3 == SetCodebase(p2, codebase_context)
    IN  p3 \o <<"PROMPT_CLOSER">>

\* _build_all_disciplines_prompt
_build_all_disciplines_prompt(project_description, num_weeks, codebase_context, previous_events, feedback, start_week, cross_reference) ==
    LET end_week == start_week + num_weeks - 1
        head == <<"THREE_INTERNS">> \o Readme(project_description)
                \o <<"GUIDANCE_FOR_EACH">>
                \o Guidance("Business") \o Guidance("Systems Engineer")
                \o Guidance("Developer")
                \o <<"Week", ToString(start_week), "Week", ToString(end_week),
                     ToString(num_weeks * 3), "CAUSAL_CHAIN", "BY_WEEK",
                     "EVENT_FORMAT">>
        p0 == IF cross_reference THEN _add_cross_reference_instruction(head)
              ELSE head
        p1 == _add_previous_events_context(p0, previous_events)
        p2 == _add_feedback_context(p1, feedback)
        p3 == SetCodebase(p2, codebase_context)
    IN  p3 \o <<"PROMPT_CLOSER">>

\* generate_events: the user prompt chosen by the mode
user_prompt(request, project_description, codebase_context, cross_reference) ==
    IF request.mode = "single"
    THEN _build_single_event_prompt(project_description, request.discipline,
                                   codebase_context, request.previous,
                                   request.feedback, request.start_week)
    ELSE IF request.mode = "set"
    THEN _build_set_prompt(project_description, request.discipline,
                          request.weeks, codebase_context, request.previous,
                          request.feedback, request.start_week)
    ELSE _build_all_disciplines_prompt(project_description, request.weeks,
                                      codebase_context, request.previous,
                                      request.feedback, request.start_week,
                                      cross_reference)

\* generate_events: the two messages sent to the model, with the codebase
\* context they were built with
Messages(request, project_description, codebase_context, cross_reference) ==
    [made |-> TRUE,
     codebase_context |-> codebase_context,
     system |-> _build_system_prompt(request.mode, request.discipline),
     user |-> user_prompt(request, project_description, codebase_context,
                          cross_reference)]

NoMessages == [made |-> FALSE]

\* the sidebar during the passes explored: a description, no uploaded file,
\* the cross-reference toggle not shown
SidebarMessages(request) == Messages(request, <<"p">>, None, FALSE)

-----------------------------------------------------------------------------
(* Session state defaults *)

Init ==
    /\ event_history = <<>>
    /\ week_counter = 0
    /\ last_mode = NoneStr
    /\ last_discipline = NoneStr
    /\ last_weeks = 1
    /\ pending_action = NoneStr
    /\ pending_feedback = None
    /\ pending_weeks = 1
    /\ entry_req = <<>>
    /\ req = NoRequest
    /\ last = Run("start", "none", NoneStr)
    /\ commit_stream = None
    /\ messages = NoMessages

-----------------------------------------------------------------------------
(* Sidebar inputs *)

\* mode_key chosen from the radio label
ModeKey(mode) ==
    IF mode = "Single Event" THEN "single"
    ELSE IF mode = "Full Set -- One Discipline" THEN "set"
    ELSE "all"

\* the discipline selector is shown unless the mode is "all disciplines"
DisciplineChoices(mode) ==
    IF mode # "Full Set -- All Disciplines" THEN DisciplineInputs ELSE {NoneStr}

\* the weeks input is shown unless the mode is "Single Event"
NumWeeksChoices(mode) ==
    IF mode # "Single Event" THEN 1..MaxWeeks ELSE {1}

\* can_generate / has_feedback: bool(text and text.strip())
HasText(text) == text # <<>> /\ Strip(text) # <<>>

-----------------------------------------------------------------------------
(* Statements of the processing pass *)

\* m = st.session_state.last_mode or "single"
ModeOrSingle(mode) == IF mode # NoneStr THEN mode ELSE "single"

\* event_history.pop(): the list that remains
Popped(history) == Front(history)

\* week_counter -= last_weeks
CounterAfterPop(counter, weeks) == counter - weeks

\* bug variant: start_week = week_counter
StartWeek_NoIncrement(counter) == counter

\* start_week = week_counter + 1
StartWeek(counter) == counter + 1

\* previous of regenerate: the join of what remains, or None when nothing does
RegeneratePrevious(history) ==
    IF history # <<>> THEN Some(Join(Separator, history)) ELSE None

\* bug variant: the texts run together with no separator
ContinuePrevious_NoSeparator(history) == Some(Join(<<>>, history))

\* previous of continue_1 / continue_n
ContinuePrevious(history) == Some(Join(Separator, history))

\* bug variant: the mode is passed on as it is
UpgradeMode_Keeps(m) == m

\* continue_n: upgrade mode for multi-week if needed
UpgradeMode(m) == IF m = "single" THEN "set" ELSE m

\* the history after a pass whose generation returned `result`
Commit(history, result) ==
    IF Truthy(result) THEN Append(history, result.val) ELSE history

\* the stream behind the text that Commit appends
CommitSource(result, stream) ==
    IF Truthy(result) THEN Some(stream) ELSE None

\* bug variant: every generation counts as one week
CommitCounter_AddsOne(counter, result, weeks) ==
    IF Truthy(result) THEN counter + 1 ELSE counter

\* week_counter after a pass whose generation returned `result`
CommitCounter(counter, result, weeks) ==
    IF Truthy(result) THEN counter + weeks ELSE counter

\* entry_req follows event_history
CommitReq(reqs, result, m, d, weeks) ==
    IF Truthy(result) THEN Append(reqs, EntryReq(m, d, weeks)) ELSE reqs

\* bug variant: the pass ends without clearing the pending action
ClearPending_Keeps == UNCHANGED <<pending_action, pending_feedback>>

\* "Clear the pending action and rerun"
ClearPending ==
    /\ pending_action' = NoneStr
    /\ pending_feedback' = None

-----------------------------------------------------------------------------
(* Actions: one per script run *)

\* bug variant: the reset leaves the pending action and feedback in place
ResetTimeline_KeepsPending ==
    /\ event_history # <<>>
    /\ event_history' = <<>>
    /\ week_counter' = 0
    /\ last_mode' = NoneStr
    /\ last_discipline' = NoneStr
    /\ last_weeks' = 1
    /\ entry_req' = <<>>
    /\ req' = NoRequest
    /\ commit_stream' = None
    /\ messages' = NoMessages
    /\ last' = Run("reset", "none", pending_action)
    /\ UNCHANGED <<pending_action, pending_feedback, pending_weeks>>

\* "Reset Timeline" button
ResetTimeline ==
    /\ event_history # <<>>
    /\ event_history' = <<>>
    /\ week_counter' = 0
    /\ last_mode' = NoneStr
    /\ last_discipline' = NoneStr
    /\ last_weeks' = 1
    /\ pending_action' = NoneStr
    /\ pending_feedback' = None
    /\ entry_req' = <<>>
    /\ req' = NoRequest
    /\ commit_stream' = None
    /\ messages' = NoMessages
    /\ last' = Run("reset", "none", pending_action)
    /\ UNCHANGED pending_weeks

\* "Regenerate Last" button: enabled only with feedback
ClickRegenerate(feedback_text) ==
    /\ event_history # <<>>
    /\ pending_action = NoneStr
    /\ HasText(feedback_text)
    /\ DriftInRange(week_counter - last_weeks, Front(entry_req))
    /\ pending_action' = "regenerate"
    /\ pending_feedback' = Some(feedback_text)
    /\ req' = NoRequest
    /\ commit_stream' = None
    /\ messages' = NoMessages
    /\ last' = Run("click", "none", pending_action)
    /\ UNCHANGED <<event_history, week_counter, last_mode, last_discipline,
                   last_weeks, pending_weeks, entry_req>>

\* "Next Week" button
ClickNextWeek(feedback_text) ==
    /\ event_history # <<>>
    /\ pending_action = NoneStr
    /\ Len(event_history) < MaxHistory
    /\ pending_action' = "continue_1"
    /\ pending_feedback' = Some(feedback_text)
    /\ req' = NoRequest
    /\ commit_stream' = None
    /\ messages' = NoMessages
    /\ last' = Run("click", "none", pending_action)
    /\ UNCHANGED <<event_history, week_counter, last_mode, last_discipline,
                   last_weeks, pending_weeks, entry_req>>

\* "Next N Weeks" button
ClickNextN(feedback_text, extend_weeks) ==
    /\ event_history # <<>>
    /\ pending_action = NoneStr
    /\ Len(event_history) < MaxHistory
    /\ pending_action' = "continue_n"
    /\ pending_feedback' = Some(feedback_text)
    /\ pending_weeks' = extend_weeks
    /\ req' = NoRequest
    /\ commit_stream' = None
    /\ messages' = NoMessages
    /\ last' = Run("click", "none", pending_action)
    /\ UNCHANGED <<event_history, week_counter, last_mode, last_discipline,
                   last_weeks, entry_req>>

\* pending action "regenerate"
HandleRegenerate(stream) ==
    /\ event_history # <<>>
    /\ pending_action = "regenerate"
    /\ LET fb == pending_feedback
           m == ModeOrSingle(last_mode)
           d == last_discipline
           history == Popped(event_history)
           counter == CounterAfterPop(week_counter, last_weeks)
           start_week == StartWeek(counter)
           weeks == last_weeks
           previous == RegeneratePrevious(history)
           result == run_generation(stream)
       IN  /\ req' = Request(m, d, weeks, start_week, previous, fb)
           /\ commit_stream' = CommitSource(result, stream)
           /\ messages' = SidebarMessages(req')
           /\ event_history' = Commit(history, result)
           /\ week_counter' = CommitCounter(counter, result, weeks)
           /\ entry_req' = CommitReq(Popped(entry_req), result, m, d, weeks)
    /\ ClearPending
    /\ last' = Run("regenerate", Outcome(stream), pending_action)
    /\ UNCHANGED <<last_mode, last_discipline, last_weeks, pending_weeks>>

\* pending action "continue_1"
HandleContinue1(stream) ==
    /\ event_history # <<>>
    /\ pending_action = "continue_1"
    /\ LET fb == pending_feedback
           m == ModeOrSingle(last_mode)
           d == last_discipline
           start_week == StartWeek(week_counter)
           previous == ContinuePrevious(event_history)
           result == run_generation(stream)
       IN  /\ req' = Request(m, d, 1, start_week, previous, fb)
           /\ commit_stream' = CommitSource(result, stream)
           /\ messages' = SidebarMessages(req')
           /\ event_history' = Commit(event_history, result)
           /\ week_counter' = CommitCounter(week_counter, result, 1)
           /\ last_weeks' = IF Truthy(result) THEN 1 ELSE last_weeks
           /\ entry_req' = CommitReq(entry_req, result, m, d, 1)
    /\ ClearPending
    /\ last' = Run("continue_1", Outcome(stream), pending_action)
    /\ UNCHANGED <<last_mode, last_discipline, pending_weeks>>

\* pending action "continue_n"
HandleContinueN(stream) ==
    /\ event_history # <<>>
    /\ pending_action = "continue_n"
    /\ LET fb == pending_feedback
           weeks == pending_weeks
           start_week == StartWeek(week_counter)
           previous == ContinuePrevious(event_history)
           m == UpgradeMode(ModeOrSingle(last_mode))
           d == last_discipline
           result == run_generation(stream)
       IN  /\ req' = Request(m, d, weeks, start_week, previous, fb)
           /\ commit_stream' = CommitSource(result, stream)
           /\ messages' = SidebarMessages(req')
           /\ event_history' = Commit(event_history, result)
           /\ week_counter' = CommitCounter(week_counter, result, weeks)
           /\ last_weeks' = IF Truthy(result) THEN weeks ELSE last_weeks
           /\ last_mode' = IF Truthy(result) THEN m ELSE last_mode
           /\ entry_req' = CommitReq(entry_req, result, m, d, weeks)
    /\ ClearPending
    /\ last' = Run("continue_n", Outcome(stream), pending_action)
    /\ UNCHANGED <<last_discipline, pending_weeks>>

\* "Generate Events" button, shown while there is no history
GenerateInitial(mode, discipline, num_weeks, project_description, stream) ==
    /\ event_history = <<>>
    /\ HasText(project_description)
    /\ LET mode_key == ModeKey(mode)
           result == run_generation(stream)
       IN  /\ req' = Request(mode_key, discipline, num_weeks, 1, None, None)
           /\ commit_stream' = CommitSource(result, stream)
           /\ messages' = SidebarMessages(req')
           /\ event_history' = Commit(event_history, result)
           /\ week_counter' = CommitCounter(week_counter, result, num_weeks)
           /\ last_mode' = IF Truthy(result) THEN mode_key ELSE last_mode
           /\ last_discipline' = IF Truthy(result) THEN discipline ELSE last_discipline
           /\ last_weeks' = IF Truthy(result) THEN num_weeks ELSE last_weeks
           /\ entry_req' = CommitReq(entry_req, result, mode_key, discipline, num_weeks)
    /\ last' = Run("generate", Outcome(stream), pending_action)
    /\ UNCHANGED <<pending_action, pending_feedback, pending_weeks>>

-----------------------------------------------------------------------------
(* Specifications *)

Click ==
    \E fb \in Feedbacks :
        \/ ClickRegenerate(fb)
        \/ ClickNextWeek(fb)
        \/ \E n \in 1..MaxWeeks : ClickNextN(fb, n)

Generate(streams) ==
    \E stream \in streams :
        \E mode \in ModeLabels :
            \E discipline \in DisciplineChoices(mode) :
                \E num_weeks \in NumWeeksChoices(mode) :
                    \E project_description \in Descriptions :
                        GenerateInitial(mode, discipline, num_weeks,
                                        project_description, stream)

Next ==
    \/ ResetTimeline
    \/ Click
    \/ \E stream \in Streams : HandleRegenerate(stream)
    \/ \E stream \in Streams : HandleContinue1(stream)
    \/ \E stream \in Streams : HandleContinueN(stream)
    \/ Generate(Streams)

Spec == Init /\ [][Next]_vars

\* the streams that end without an error and carry text
OkStreams == {s \in Streams : Outcome(s) = "ok"}

\* The same program against a generation service that never fails.
NextSuccess ==
    \/ ResetTimeline
    \/ Click
    \/ \E stream \in OkStreams : HandleRegenerate(stream)
    \/ \E stream \in OkStreams : HandleContinue1(stream)
    \/ \E stream \in OkStreams : HandleContinueN(stream)
    \/ Generate(OkStreams)

SpecSuccess == Init /\ [][NextSuccess]_vars

\* generate_events on its own: the requests explored
PromptRequests ==
    [mode : {"single", "set", "all"},
     discipline : {NoneStr, "", "Developer"},
     weeks : {1, 2},
     start_week : {0, 1, 3},
     previous : {None, Some(<<>>), Some(<<"E", "\n\n", "F">>)},
     feedback : {None, Some(<<>>), Some(<<" ">>), Some(<<" ", "h", " ">>)}]

\* the codebase contexts explored: none, an empty one, one file
CodebaseContexts == {None, Some(<<>>), Some(<<"FILE", "c">>)}

InitPrompt ==
    /\ event_history = <<>>
    /\ week_counter = 0
    /\ last_mode = NoneStr
    /\ last_discipline = NoneStr
    /\ last_weeks = 1
    /\ pending_action = NoneStr
    /\ pending_feedback = None
    /\ pending_weeks = 1
    /\ entry_req = <<>>
    /\ req \in PromptRequests
    /\ last = Run("start", "none", NoneStr)
    /\ commit_stream = None
    /\ messages = NoMessages

\* generate_events builds its messages for the request
BuildMessages(project_description, codebase_context, cross_reference) ==
    /\ ~messages.made
    /\ messages' = Messages(req, Strip(project_description), codebase_context,
                            cross_reference)
    /\ UNCHANGED <<event_history, week_counter, last_mode, last_discipline,
                   last_weeks, pending_action, pending_feedback, pending_weeks,
                   entry_req, req, last, commit_stream>>

NextPrompt ==
    \E project_description \in Descriptions :
        \E codebase_context \in CodebaseContexts :
            \E cross_reference \in BOOLEAN :
                BuildMessages(project_description, codebase_context,
                              cross_reference)

\* The prompt composer on its own, over the requests in PromptRequests.
SpecPrompt == InitPrompt /\ [][NextPrompt]_vars

-----------------------------------------------------------------------------
(* Properties *)

Failed(run) == run.outcome \in {"raise", "empty"}

Succeeded(run) == run.outcome = "ok"

Continued(run) == run.op \in {"continue_1", "continue_n"}

\* the texts of a history joined by the separator, built from the right
RECURSIVE ConcatTexts(_)
ConcatTexts(history) ==
    IF history = <<>> THEN <<>>
    ELSE IF Len(history) = 1 THEN history[1]
    ELSE ConcatTexts(Front(history)) \o Separator \o LastOf(history)

\* C1: against a service that never fails, week_counter equals the sum of
\* the weeks of the entries of the history, between any two script runs.
C1_WeekCounterIsSumOfWeeks == week_counter = SumWeeks(entry_req)

\* a regenerate succeeded on a three-entry history whose entries differ in
\* weeks, after continuations by 1 and by N
C1_Witness ==
    /\ last.op = "regenerate" /\ Succeeded(last)
    /\ Len(entry_req) = 3
    /\ entry_req[2].weeks = 1
    /\ entry_req[3].weeks = 2
    /\ week_counter = SumWeeks(entry_req)

\* C2: a script run whose generation fails (the service raises, or the
\* stream carries no text) leaves the history and week_counter as they were.
C2_FailureLeavesStateUnchanged ==
    [][Failed(last') =>
          /\ event_history' = event_history
          /\ week_counter' = week_counter]_vars

\* C3: after a failed regenerate the popped entry is back in the last
\* position with its text and weeks, the history is no shorter, and
\* week_counter has its value of before the run.
C3_FailedRegenerateRestores ==
    [][(last'.op = "regenerate" /\ Failed(last')) =>
          /\ Len(event_history') >= Len(event_history)
          /\ LastOf(event_history') = LastOf(event_history)
          /\ LastOf(entry_req').weeks = LastOf(entry_req).weeks
          /\ week_counter' = week_counter]_vars

\* C4: a continue_n of more than one week run while last_mode is "single"
\* issues its request with mode "set".
C4_ModeUpgrade ==
    [][(last'.op = "continue_n" /\ pending_weeks > 1 /\ last_mode = "single")
          => req'.mode = "set"]_vars

\* a failed continue_n of two weeks left last_mode "single" and had asked
\* for mode "set"
C4_Witness ==
    /\ last.op = "continue_n" /\ Failed(last)
    /\ last_mode = "single"
    /\ req.weeks = 2
    /\ req.mode = "set"

\* C5: the previous-events text of a continue is the texts of the history
\* at call time, in order, joined by the separator; that of a regenerate is
\* the same of the history without its last entry, and None when that is
\* empty.
C5_PriorTextComposition ==
    [][/\ Continued(last') =>
              req'.previous = Some(ConcatTexts(event_history))
       /\ last'.op = "regenerate" =>
              req'.previous = IF Len(event_history) > 1
                              THEN Some(ConcatTexts(Front(event_history)))
                              ELSE None]_vars

\* a regenerate of the third entry was given the two remaining texts, which
\* differ, with the separator between them
C5_Witness ==
    /\ last.op = "regenerate"
    /\ Len(event_history) >= 2
    /\ event_history[1] # event_history[2]
    /\ req.previous.some
    /\ req.previous.val = event_history[1] \o Separator \o event_history[2]

\* C6: a successful continue by n appends one entry, leaves the entries
\* before it as they were, adds n to week_counter, and its request had
\* start_week one more than week_counter of before the run.
C6_ContinueAppendsOne ==
    [][(Continued(last') /\ Succeeded(last')) =>
          LET n == IF last'.op = "continue_1" THEN 1 ELSE pending_weeks
          IN  /\ Len(event_history') = Len(event_history) + 1
              /\ Front(event_history') = event_history
              /\ Front(entry_req') = entry_req
              /\ LastOf(entry_req').weeks = n
              /\ week_counter' = week_counter + n
              /\ req'.start_week = week_counter + 1]_vars

\* a continue by two weeks succeeded on a history of two entries
C6_Witness ==
    /\ last.op = "continue_n" /\ Succeeded(last)
    /\ Len(event_history) = 3
    /\ req.weeks = 2
    /\ week_counter = req.start_week + 1

\* C7: a successful regenerate keeps the length of the history and the
\* entries before the last, gives the new last entry the weeks of the one
\* it replaces, and leaves week_counter as it was.
C7_RegenerateReplacesLast ==
    [][(last'.op = "regenerate" /\ Succeeded(last')) =>
          /\ Len(event_history') = Len(event_history)
          /\ Front(event_history') = Front(event_history)
          /\ Front(entry_req') = Front(entry_req)
          /\ LastOf(entry_req').weeks = LastOf(entry_req).weeks
          /\ week_counter' = week_counter]_vars

\* C8: every regenerate issues its request with the mode, discipline and
\* weeks the popped entry was generated with, and with start_week one more
\* than the weeks of the entries that remain.
C8_RegenerateReissuesSameRequest ==
    [][last'.op = "regenerate" =>
          /\ req'.mode = LastOf(entry_req).mode
          /\ req'.discipline = LastOf(entry_req).discipline
          /\ req'.weeks = LastOf(entry_req).weeks
          /\ req'.start_week = 1 + SumWeeks(Front(entry_req))]_vars

\* C9: an initial generation runs on an empty history only, asks for
\* start_week 1 with no previous events and, when it succeeds, leaves one
\* entry and week_counter equal to the weeks generated.
C9_InitialGeneration ==
    [][last'.op = "generate" =>
          /\ event_history = <<>>
          /\ req'.start_week = 1
          /\ req'.previous = None
          /\ Succeeded(last') =>
                /\ Len(event_history') = 1
                /\ week_counter' = req'.weeks]_vars

\* C10: after a reset the history is empty, week_counter is 0 and neither a
\* pending action nor pending feedback remains; the reset can be run in
\* every state that shows its button.
C10_Reset ==
    /\ last.op = "reset" =>
          /\ event_history = <<>>
          /\ week_counter = 0
          /\ pending_action = NoneStr
          /\ pending_feedback = None
    /\ event_history # <<>> => ENABLED ResetTimeline

\* a reset ran while a regenerate with feedback was pending
C10_Witness ==
    /\ last.op = "reset"
    /\ last.action = "regenerate"
    /\ pending_weeks = 2

\* all increments of a stream, in order, as one text
RECURSIVE AllIncrements(_)
AllIncrements(chunks) ==
    IF chunks = <<>> THEN <<>>
    ELSE AllIncrements(Front(chunks)) \o LastOf(chunks)

\* C11: every entry of the history is either an entry that was there
\* before the run, in the same position, or the non-empty text of all
\* increments, in order, of a stream that ended without an error; a stream
\* that raised, or that carried no text, adds no entry.
C11_OnlyCompleteStreamsCommitted ==
    [][\A i \in 1..Len(event_history') :
          \/ /\ i <= Len(event_history)
             /\ event_history'[i] = event_history[i]
          \/ /\ i = Len(event_history')
             /\ commit_stream'.some
             /\ ~commit_stream'.val.raises
             /\ event_history'[i] # <<>>
             /\ event_history'[i] = AllIncrements(commit_stream'.val.chunks)]_vars

\* the text of a stream of three chunks, one of them empty, was appended
\* as the third entry of the history
C11_Witness ==
    /\ Succeeded(last)
    /\ commit_stream.some
    /\ Len(commit_stream.val.chunks) = 3
    /\ Len(event_history) = 3
    /\ LastOf(event_history) = <<"E", "F">>

Handled(run) == run.op \in {"regenerate", "continue_1", "continue_n"}

\* C12: a regenerate or a continue never runs on an empty history (so a
\* regenerate never pops from an empty list), and no pending action is ever
\* left recorded while the history is empty.
C12_NoPassOnEmptyHistory ==
    [][/\ Handled(last') => event_history # <<>>
       /\ pending_action' # NoneStr => event_history' # <<>>]_vars

\* a failed regenerate of the only entry left the history empty, with no
\* pending action that a later run could execute on it
C12_Witness ==
    /\ last.op = "regenerate" /\ Failed(last)
    /\ event_history = <<>>
    /\ pending_action = NoneStr

\* the history and week_counter that `op`, run in a state with the given
\* history, counter and last_weeks, leaves when its generation succeeds with
\* `stream`; weeks is the number of weeks asked for (continue, generate)
AfterSuccess(op, history, counter, lastweeks, weeks, stream) ==
    LET result == run_generation(stream)
    IN  IF op = "regenerate"
        THEN IF history = <<>>
             THEN <<history, counter>>
             ELSE <<Commit(Popped(history), result),
                    CommitCounter(CounterAfterPop(counter, lastweeks), result,
                                  lastweeks)>>
        ELSE <<Commit(history, result), CommitCounter(counter, result, weeks)>>

\* C13: after a failed operation, the same operation retried against a
\* service that succeeds leaves the history and week_counter that it would
\* have left had it succeeded at once.
C13_RetryAfterFailure ==
    [][Failed(last') =>
          \A stream \in OkStreams :
              AfterSuccess(last'.op, event_history', week_counter',
                           last_weeks', req'.weeks, stream)
              = AfterSuccess(last'.op, event_history, week_counter,
                             last_weeks, req'.weeks, stream)]_vars

\* C14: a pass that handles a pending action handles the one recorded by
\* the click just before it, and ends with pending_action and
\* pending_feedback cleared, whether its generation succeeded or failed; no
\* pass handles an action that an earlier pass has handled.
C14_OneIntentPerPass ==
    [][Handled(last') =>
          /\ last.op = "click"
          /\ last'.op = pending_action
          /\ req' # NoRequest
          /\ pending_action' = NoneStr
          /\ pending_feedback' = None]_vars

\* a failed continue_1 pass ended with the pending action and feedback
\* cleared
C14_Witness ==
    /\ last.op = "continue_1" /\ Failed(last)
    /\ last.action = "continue_1"
    /\ pending_action = NoneStr
    /\ pending_feedback = None

\* C18: whenever the history is not empty, last_weeks is the number of weeks
\* its last entry was generated with.
C18_LastWeeksIsLastEntry ==
    event_history # <<>> => last_weeks = LastOf(entry_req).weeks

\* C19: week_counter is never negative, it is 0 whenever the history is
\* empty, and every request issued has start_week >= 1.
C19_CounterNonNegative ==
    /\ week_counter >= 0
    /\ event_history = <<>> => week_counter = 0
    /\ req # NoRequest => req.start_week >= 1

\* the places of a prompt that hold one of the tokens
Places(prompt, tokens) == {i \in 1..Len(prompt) : prompt[i] \in tokens}

Contains(prompt, tokens) == Places(prompt, tokens) # {}

\* every place of the first tokens comes before every place of the second
Before(prompt, first, second) ==
    \A i \in Places(prompt, first) : \A j \in Places(prompt, second) : i < j

NonEmpty(text) == text.some /\ Len(text.val) > 0

HasNonSpace(text) == text.some /\ \E i \in 1..Len(text.val) : text.val[i] # " "

FormatMark == {"EVENT_FORMAT"}
PreviousMark == {"PREVIOUS_EVENTS"}
FeedbackMark == {"FEEDBACK"}
CodebaseMark == {"CODEBASE_FILES", "CODEBASE_FILES_SINGLE"}
CloserMark == {"PROMPT_CLOSER"}

\* the blocks of a user prompt, in the order the claim gives them
BlockOrder == <<FormatMark, PreviousMark, FeedbackMark, CodebaseMark, CloserMark>>

\* C15: in the user prompt of each builder, the previous-events block is
\* there exactly when the previous text is not empty, the feedback block
\* exactly when the feedback has a character that is not a space, the
\* codebase block exactly when the codebase context is not empty, and the
\* blocks that are there come in the order format template, previous
\* events, feedback, codebase, closing directive.
C15_ConditionalBlocks ==
    messages.made =>
        /\ Contains(messages.user, PreviousMark) <=> NonEmpty(req.previous)
        /\ Contains(messages.user, FeedbackMark) <=> HasNonSpace(req.feedback)
        /\ Contains(messages.user, CodebaseMark)
               <=> NonEmpty(messages.codebase_context)
        /\ Contains(messages.user, FormatMark)
        /\ Contains(messages.user, CloserMark)
        /\ \A a \in 1..Len(BlockOrder) : \A b \in 1..Len(BlockOrder) :
               a < b => Before(messages.user, BlockOrder[a], BlockOrder[b])

\* a single-event prompt built with a previous text, feedback and a
\* codebase context holds all three blocks
C15_Witness ==
    /\ messages.made
    /\ req.mode = "single"
    /\ req.feedback = Some(<<" ", "h", " ">>)
    /\ Contains(messages.user, PreviousMark)
    /\ Contains(messages.user, FeedbackMark)
    /\ Contains(messages.user, CodebaseMark)

\* C16 as claimed: for every mode other than "all", whatever the
\* discipline, the system prompt has the discipline-exclusivity instruction;
\* for "all" it has the cascade instruction and not the exclusivity one.
C16_ExclusivityWhateverDiscipline ==
    messages.made =>
        /\ req.mode # "all" => Contains(messages.system, {"ONLY_DISCIPLINE"})
        /\ req.mode = "all" =>
              /\ Contains(messages.system, {"CASCADE_PRINCIPLE"})
              /\ ~Contains(messages.system, {"ONLY_DISCIPLINE"})

\* C16 as amended: for every mode other than "all" and a discipline that is
\* given, the system prompt has the exclusivity instruction for that
\* discipline and no cascade instruction; with no discipline it has
\* neither; for "all" it has the cascade instruction and not the
\* exclusivity one, whatever the discipline.
C16_ExclusivityForGivenDiscipline ==
    messages.made =>
        /\ (req.mode # "all" /\ req.discipline \notin {NoneStr, ""}) =>
              /\ \E i \in 1..(Len(messages.system) - 1) :
                     /\ messages.system[i] = "ONLY_DISCIPLINE"
                     /\ messages.system[i + 1] = req.discipline
              /\ ~Contains(messages.system, {"CASCADE_PRINCIPLE"})
        /\ (req.mode # "all" /\ req.discipline \in {NoneStr, ""}) =>
              /\ ~Contains(messages.system, {"ONLY_DISCIPLINE"})
              /\ ~Contains(messages.system, {"CASCADE_PRINCIPLE"})
        /\ req.mode = "all" =>
              /\ Contains(messages.system, {"CASCADE_PRINCIPLE"})
              /\ ~Contains(messages.system, {"ONLY_DISCIPLINE"})

\* a system prompt for mode "set" and the Developer discipline holds the
\* exclusivity instruction
C16_Witness ==
    /\ messages.made
    /\ req.mode = "set"
    /\ req.discipline = "Developer"
    /\ Contains(messages.system, {"ONLY_DISCIPLINE"})

\* C17: nothing follows the closing directive in a user prompt.
C17_CloserIsLast ==
    messages.made => LastOf(messages.user) = "PROMPT_CLOSER"

====
